---------------------------- MODULE Spec2Model ----------------------------
(***************************************************************************)
(* Model of the Agilent chromatography decoders.                           *)
(*                                                                         *)
(*   SpecDelta  : chConverter (main_program.py), the run-length/delta      *)
(*                decoder, driven by the per-run loop of analyzeData.      *)
(*   SpecCH     : CHFile.__init__ (agilent-ch_converter.py): _parse_header *)
(*                followed by _parse_data, inside the with-block.          *)
(*   SpecStatus : CHFile._parse_header_status, the diagnostic walk over    *)
(*                the header bytes.                                        *)
(*                                                                         *)
(* Floating-point samples are modelled as exact fixed-point integers in    *)
(* units of one tenth (scale 5 is 0.5, sample 35 is 3.5); rounding of      *)
(* float64 arithmetic is outside the model.                                *)
(***************************************************************************)
EXTENDS Integers, Sequences, FiniteSets, TLC

(***************************************************************************)
(* Bounds of the model.                                                    *)
(***************************************************************************)
\* longest data stream (bytes after offset 0x1800) of a variant-B file
MaxBytes == 12
\* largest run length written into a generated run header
MaxRecs == 3
\* most raw float64 samples stored in a generated variant-A file
MaxSamples == 2

(***************************************************************************)
(* Byte-level helpers (struct.unpack with big-endian formats).             *)
(***************************************************************************)
Min(a, b) == IF a < b THEN a ELSE b

\* struct.unpack('>h', b)[0]
Int16BE(b) ==
    LET u == b[1] * 256 + b[2]
    IN  IF u >= 32768 THEN u - 65536 ELSE u

\* struct.unpack('>i', b)[0]
Int32BE(b) ==
    LET hi == IF b[1] >= 128 THEN b[1] - 256 ELSE b[1]
    IN  ((hi * 256 + b[2]) * 256 + b[3]) * 256 + b[4]

\* the bytes '>h' / '>i' decode back to v (used to build input files only)
Int16Bytes(v) ==
    LET u == IF v < 0 THEN v + 65536 ELSE v
    IN  << u \div 256, u % 256 >>

Int32Bytes(v) ==
    << (v \div 16777216) % 256, (v \div 65536) % 256, (v \div 256) % 256, v % 256 >>

(***************************************************************************)
(* Variant-B input files.  A file is its length up to the data stream      *)
(* (hdrLen), the float64 stored at 0x127C (scale, in tenths) and the bytes *)
(* from offset 0x1800 on (stream).                                         *)
(***************************************************************************)
ScaleOffset == 4732     \* 0x127C
StreamOffset == 6144    \* 0x1800
EscapeSentinel == -32768

Scales == {5}
Deltas16 == {10, -5, 2}
Deltas32 == {1000, -50}
Flags == {0, 1}

RunHeaders == { << x, n >> : x \in Flags, n \in 0..MaxRecs }
RunEntries == { Int16Bytes(d) : d \in Deltas16 }
                \cup { Int16Bytes(EscapeSentinel) \o Int32Bytes(d) : d \in Deltas32 }

\* Streams[n, k]: every byte sequence of at most n bytes that a reader
\* expecting k more entries of the current run can be handed: whole records,
\* cut anywhere
Streams[n \in 0..MaxBytes, k \in 0..MaxRecs] ==
    LET toks == IF k = 0 THEN RunHeaders ELSE RunEntries
        after(t) == IF k > 0 THEN k - 1 ELSE t[2]
        cut(t) == { SubSeq(t, 1, m) : m \in 0..Min(n, Len(t) - 1) }
        whole(t) == IF Len(t) > n THEN {}
                    ELSE IF k = 0 /\ t = << 0, 0 >> THEN { t }
                    ELSE { t \o r : r \in Streams[n - Len(t), after(t)] }
    IN  UNION { cut(t) \cup whole(t) : t \in toks }

\* every generated stream at scale 0.5, one escaped first entry at scale 0.1,
\* and a file that ends inside the scale factor
FilesB ==
    { [hdrLen |-> StreamOffset, scale |-> s, stream |-> b] :
          s \in Scales, b \in Streams[MaxBytes, 0] }
    \cup { [hdrLen |-> StreamOffset, scale |-> 1,
            stream |-> << 1, 1 >> \o Int16Bytes(EscapeSentinel) \o Int32Bytes(1000)
                          \o << 0, 0 >>] }
    \cup { [hdrLen |-> ScaleOffset + 4, scale |-> 0, stream |-> << >>] }

FileLenB(f) == f.hdrLen + Len(f.stream)

\* file_.read(n) at absolute position p of a data-stream read
ReadB(f, p, n) ==
    LET a == p - StreamOffset
    IN  IF f.hdrLen < StreamOffset \/ a >= Len(f.stream) THEN << >>
        ELSE SubSeq(f.stream, a + 1, Min(a + n, Len(f.stream)))

\* struct.unpack('>d', file_.read(8)) at 0x127C: the value, or a short read
ScaleReadable(f) == FileLenB(f) >= ScaleOffset + 8

VARIABLES
    runs,         \* analyzeData: the input files of data_files, in order
    j,            \* analyzeData: index of the run being converted
    pc,           \* chConverter: control state
    ifileOpen,    \* analyzeData: the with-block of ifile is entered
    pos,          \* ifile: absolute file position
    del_ab,       \* chConverter: scale factor
    data,         \* chConverter: samples appended so far
    nrecs,        \* chConverter: iterations left of the for loop
    point_lists,  \* analyzeData: the list returned by each finished call
    log,          \* history: per appended sample, the entry it was decoded from
    nreads,       \* history: file_.read calls of the stream made by this call
    shortRead     \* history: some read of this call returned too few bytes

varsB == << runs, j, pc, ifileOpen, pos, del_ab, data, nrecs, point_lists,
            log, nreads, shortRead >>

VARIABLES
    chfile,       \* CHFile: the file at self.filepath
    cpc,          \* CHFile.__init__: control state
    file_open,    \* CHFile.__init__: the with-block of file_ is entered
    cpos,         \* file_: absolute file position
    version,      \* _parse_header: the parsed version, -1 before it is parsed
    metadata,     \* self.metadata
    fieldIdx,     \* _parse_header: entries of fields handled so far
    values,       \* self.values
    err           \* the exception raised, "" while none

varsA == << chfile, cpc, file_open, cpos, version, metadata, fieldIdx, values, err >>

VARIABLES
    sfile,          \* _parse_header_status: the file at self.filepath
    spc,            \* _parse_header_status: control state
    sOpen,          \* _parse_header_status: file_ is open
    spos,           \* file_.tell()
    unknown_bytes,  \* bytes collected since the last report
    unknown_start,  \* where they start, -1 for None
    lastPos         \* history: file_.tell() when the last iteration began, -1 before

varsS == << sfile, spc, sOpen, spos, unknown_bytes, unknown_start, lastPos >>

vars == << varsB, varsA, varsS >>

IdleB ==
    /\ runs = << >> /\ j = 1 /\ pc = "Unused" /\ ifileOpen = FALSE /\ pos = 0
    /\ del_ab = 0 /\ data = << >> /\ nrecs = 0 /\ point_lists = << >>
    /\ log = << >> /\ nreads = 0 /\ shortRead = FALSE

IdleA ==
    /\ chfile = << >> /\ cpc = "Unused" /\ file_open = FALSE /\ cpos = 0
    /\ version = -1 /\ metadata = << >> /\ fieldIdx = 0 /\ values = << >>
    /\ err = ""

IdleS ==
    /\ sfile = << >> /\ spc = "Unused" /\ sOpen = FALSE /\ spos = 0
    /\ unknown_bytes = << >> /\ unknown_start = -1 /\ lastPos = -1

(***************************************************************************)
(* chConverter                                                             *)
(***************************************************************************)
\* FreshData with a fault: the list survives from the previous call
StaleData == data

\* line 10: data = []
FreshData == << >>

\* EscapedSample with a fault: an escaped value after the first is added to the
\* previous sample
EscapedAsDelta(scale, prev, inp) ==
    IF Len(prev) = 0 THEN scale * inp
    ELSE prev[Len(prev)] + scale * inp

\* line 22: data.append(del_ab * inp)
EscapedSample(scale, prev, inp) == scale * inp

\* DirectSample with a fault: the first-sample test is dropped
DirectAsAbsolute(scale, prev, inp) == scale * inp

\* lines 23-26
DirectSample(scale, prev, inp) ==
    IF Len(prev) = 0 THEN scale * inp
    ELSE prev[Len(prev)] + scale * inp

\* Advance with a fault: an accepted read leaves the position where it was
AdvanceStuck(p, n) == p

\* file_.read(n) that returns n bytes moves the position by n
Advance(p, n) == p + n

\* OnShortRead with a fault: a short read ends the loop like the (0,0) pair
ShortReadBreaks == "Done"

\* struct.unpack on fewer bytes than the format needs raises struct.error
OnShortRead == "Error"

Raise ==
    /\ pc' = OnShortRead
    /\ shortRead' = TRUE

\* analyzeData line 91: open the channel file of run j
OpenRun ==
    /\ pc = "Idle"
    /\ j <= Len(runs)
    /\ ifileOpen' = TRUE
    /\ pos' = 0
    /\ pc' = "ReadScale"
    /\ nreads' = 0
    /\ shortRead' = FALSE
    /\ UNCHANGED << runs, j, del_ab, data, nrecs, point_lists, log >>
    /\ UNCHANGED << varsA, varsS >>

\* chConverter lines 7-12
ReadScale ==
    /\ pc = "ReadScale"
    /\ IF ScaleReadable(runs[j])
       THEN /\ del_ab' = runs[j].scale
            /\ data' = FreshData
            /\ log' = << >>
            /\ pos' = StreamOffset
            /\ pc' = "ReadingRunHeader"
            /\ UNCHANGED shortRead
       ELSE /\ Raise
            /\ pos' = Min(ScaleOffset + 8, FileLenB(runs[j]))
            /\ UNCHANGED << del_ab, data, log >>
    /\ UNCHANGED << runs, j, ifileOpen, nrecs, point_lists, nreads >>
    /\ UNCHANGED << varsA, varsS >>

\* chConverter lines 13-18
ReadRunHeader ==
    /\ pc = "ReadingRunHeader"
    /\ LET b == ReadB(runs[j], pos, 2)
       IN  /\ nreads' = nreads + 1
           /\ IF Len(b) < 2
              THEN /\ Raise
                   /\ pos' = pos + Len(b)
                   /\ UNCHANGED nrecs
              ELSE /\ pos' = Advance(pos, 2)
                   /\ UNCHANGED shortRead
                   /\ IF b[1] = 0 /\ b[2] = 0
                      THEN /\ pc' = "Done"
                           /\ UNCHANGED nrecs
                      ELSE /\ nrecs' = b[2]
                           /\ pc' = IF b[2] > 0 THEN "ReadingDelta"
                                    ELSE "ReadingRunHeader"
    /\ UNCHANGED << runs, j, ifileOpen, del_ab, data, point_lists, log >>
    /\ UNCHANGED << varsA, varsS >>

AfterEntry == IF nrecs > 1 THEN "ReadingDelta" ELSE "ReadingRunHeader"

\* chConverter lines 19-20 and 23-26
ReadDelta ==
    /\ pc = "ReadingDelta"
    /\ LET b == ReadB(runs[j], pos, 2)
       IN  /\ nreads' = nreads + 1
           /\ IF Len(b) < 2
              THEN /\ Raise
                   /\ pos' = pos + Len(b)
                   /\ UNCHANGED << data, log, nrecs >>
              ELSE /\ pos' = Advance(pos, 2)
                   /\ UNCHANGED shortRead
                   /\ IF Int16BE(b) = EscapeSentinel
                      THEN /\ pc' = "Escaped"
                           /\ UNCHANGED << data, log, nrecs >>
                      ELSE /\ data' = Append(data, DirectSample(del_ab, data, Int16BE(b)))
                           /\ log' = Append(log, [esc |-> FALSE, val |-> Int16BE(b)])
                           /\ nrecs' = nrecs - 1
                           /\ pc' = AfterEntry
    /\ UNCHANGED << runs, j, ifileOpen, del_ab, point_lists >>
    /\ UNCHANGED << varsA, varsS >>

\* chConverter lines 21-22
ReadEscaped ==
    /\ pc = "Escaped"
    /\ LET b == ReadB(runs[j], pos, 4)
       IN  /\ nreads' = nreads + 1
           /\ IF Len(b) < 4
              THEN /\ Raise
                   /\ pos' = pos + Len(b)
                   /\ UNCHANGED << data, log, nrecs >>
              ELSE /\ pos' = Advance(pos, 4)
                   /\ UNCHANGED shortRead
                   /\ data' = Append(data, EscapedSample(del_ab, data, Int32BE(b)))
                   /\ log' = Append(log, [esc |-> TRUE, val |-> Int32BE(b)])
                   /\ nrecs' = nrecs - 1
                   /\ pc' = AfterEntry
    /\ UNCHANGED << runs, j, ifileOpen, del_ab, point_lists >>
    /\ UNCHANGED << varsA, varsS >>

\* chConverter line 28 and analyzeData lines 92-107: the list is returned,
\* consumed, and the with-block of ifile is left
CloseRun ==
    /\ pc = "Done"
    /\ point_lists' = Append(point_lists, data)
    /\ ifileOpen' = FALSE
    /\ j' = j + 1
    /\ pc' = IF j < Len(runs) THEN "Idle" ELSE "Finished"
    /\ UNCHANGED << runs, pos, del_ab, data, nrecs, log, nreads, shortRead >>
    /\ UNCHANGED << varsA, varsS >>

\* analyzeData line 91: struct.error leaves the with-block and analyzeData
Unwind ==
    /\ pc = "Error"
    /\ ifileOpen' = FALSE
    /\ pc' = "Aborted"
    /\ UNCHANGED << runs, j, pos, del_ab, data, nrecs, point_lists, log,
                    nreads, shortRead >>
    /\ UNCHANGED << varsA, varsS >>

\* data_files holds the same file twice with this one between them
OtherFileB ==
    [hdrLen |-> StreamOffset, scale |-> 5,
     stream |-> << 1, 1 >> \o Int16Bytes(2) \o << 0, 0 >>]

InitDelta ==
    /\ IdleA
    /\ IdleS
    /\ \E f \in FilesB : runs = << f, OtherFileB, f >>
    /\ j = 1
    /\ pc = "Idle"
    /\ ifileOpen = FALSE
    /\ pos = 0
    /\ del_ab = 0
    /\ data = << >>
    /\ nrecs = 0
    /\ point_lists = << >>
    /\ log = << >>
    /\ nreads = 0
    /\ shortRead = FALSE

DecodeStep == ReadScale \/ ReadRunHeader \/ ReadDelta \/ ReadEscaped

NextDelta == OpenRun \/ DecodeStep \/ CloseRun \/ Unwind

SpecDelta == InitDelta /\ [][NextDelta]_vars

(***************************************************************************)
(* Properties of chConverter                                               *)
(***************************************************************************)
Decoding == pc \in {"ReadingRunHeader", "ReadingDelta", "Escaped"}
Samples == 1..Len(data)
Logged == Len(log) = Len(data)

RECURSIVE SumVals(_)
SumVals(i) == IF i = 0 THEN 0 ELSE SumVals(i - 1) + log[i].val

C2_DirectIsCumulative ==
    /\ Logged
    /\ \A i \in Samples :
          ~log[i].esc =>
              data[i] = IF i = 1 THEN del_ab * log[i].val
                        ELSE data[i - 1] + del_ab * log[i].val
    /\ (\A i \in Samples : ~log[i].esc) =>
          \A i \in Samples : data[i] = del_ab * SumVals(i)

\* the run (flag 1, length 3, deltas 10, -5, 2) at scale 0.5 returned
\* 5.0, 2.5, 3.5
C2_Witness ==
    /\ pc = "Done"
    /\ del_ab = 5
    /\ log = << [esc |-> FALSE, val |-> 10], [esc |-> FALSE, val |-> -5],
                [esc |-> FALSE, val |-> 2] >>
    /\ data = << 50, 25, 35 >>

\* C3: a call is Done only after reading the pair (0,0) where a run header is
\* expected, and the list it returns is the list accumulated; a call that
\* met the end of the file on any read ends in an error and returns no list.
C3_DoneOnlyOnSentinel ==
    /\ pc = "Done" =>
          /\ ~shortRead
          /\ nrecs = 0
          /\ ReadB(runs[j], pos - 2, 2) = << 0, 0 >>
    /\ Len(point_lists) = j - 1
    /\ (pc \in {"Idle", "Finished"} /\ j > 1) => point_lists[j - 1] = data
    /\ shortRead => pc \in {"Error", "Aborted"}

\* a call that appended samples and then met the end of the file
C3_Witness ==
    /\ pc = "Aborted"
    /\ shortRead
    /\ Len(data) > 0
    /\ pos = FileLenB(runs[j])
    /\ pos > StreamOffset

\* C8: calls on equal files return equal lists, whatever was decoded between.
C8_Deterministic ==
    \A a, b \in 1..Len(point_lists) :
        runs[a] = runs[b] => point_lists[a] = point_lists[b]

\* the same file decoded twice with another file decoded in between
C8_Witness ==
    /\ Len(point_lists) = 3
    /\ runs[1] = runs[3]
    /\ runs[1] # runs[2]
    /\ point_lists[1] # << >>
    /\ point_lists[1] # point_lists[2]

\* C9: a call makes at most one read per two bytes of the stream, plus the
\* one that fails or meets (0,0), and while it is decoding a step is enabled:
\* it ends after a number of steps bounded by the file size.
C9_BoundedByFileSize ==
    /\ (ifileOpen /\ j <= Len(runs)) =>
          nreads <= (Len(runs[j].stream) \div 2) + 1
    /\ Decoding => ENABLED DecodeStep
    /\ Decoding => 2 * nreads <= pos - StreamOffset

\* a run header with a non-zero flag and run length 0 was read and decoding
\* went on to the end
C9_Witness ==
    /\ pc = "Done"
    /\ runs[j].stream = << 1, 0, 0, 0 >>
    /\ nreads = 2
    /\ data = << >>

(***************************************************************************)
(* Variant-A files (class CHFile).  A file is its first bytes (head: the   *)
(* length-prefixed version string), its total length (len), the length     *)
(* byte found in front of every UTF-16 string (strlen), whether the date   *)
(* string matches the strptime pattern (dateOK), the float64 at 4732       *)
(* (yscaling), the complete little-endian float64 values stored from 6144  *)
(* on (raw) and the period of the non-zero bytes in the regions no field   *)
(* covers (mark, 0 for none).                                              *)
(***************************************************************************)
\* fields (lines 53-72); "H" is UINT16, "d" is ENDIAN + 'd'
fields ==
    << << "sequence_line_or_injection", 252, "H" >>,
       << "injection_or_sequence_line", 256, "H" >>,
       << "start_time", 282, "x-time" >>,
       << "end_time", 286, "x-time" >>,
       << "version_string", 326, "utf16" >>,
       << "description", 347, "utf16" >>,
       << "sample", 858, "utf16" >>,
       << "operator", 1880, "utf16" >>,
       << "date", 2391, "utf16" >>,
       << "inlet", 2492, "utf16" >>,
       << "instrument", 2533, "utf16" >>,
       << "method", 2574, "utf16" >>,
       << "software version", 3601, "utf16" >>,
       << "software name", 3089, "utf16" >>,
       << "software revision", 3802, "utf16" >>,
       << "units", 4172, "utf16" >>,
       << "detector", 4213, "utf16" >>,
       << "yscaling", 4732, "d" >> >>

\* line 74
data_start == 6144

\* supported_versions with a fault: the older layout is let through as well
supported_versions_wide == {130, 179}

\* line 76
supported_versions == {179}

\* where the file format puts the first sample, and the size of one
DataOffset == 6144
SampleSize == 8

Utf16Offsets == { fields[i][2] : i \in { k \in DOMAIN fields : fields[k][3] = "utf16" } }

\* the byte at offset p < f.len
ByteA(f, p) ==
    IF p < Len(f.head) THEN f.head[p + 1]
    ELSE IF p \in Utf16Offsets THEN f.strlen
    ELSE IF f.mark > 0 /\ p % f.mark = 0 THEN 1
    ELSE 0

\* struct.calcsize of the fixed-width formats
CalcSize(type_) ==
    CASE type_ = "H" -> 2
      [] type_ = "x-time" -> 4
      [] type_ = "d" -> 8

\* the bytes a field read at offset off asks for: parse_utf16_string reads one
\* length byte and then twice that many bytes
FieldSize(f, off, type_) ==
    IF type_ = "utf16" THEN 1 + 2 * ByteA(f, off) ELSE CalcSize(type_)

\* whether unpack gets all the bytes it needs for the field at off
FieldReadable(f, off, type_) ==
    IF type_ = "utf16"
    THEN off < f.len /\ off + FieldSize(f, off, type_) <= f.len
    ELSE off + CalcSize(type_) <= f.len

\* the decoded value of a field
FieldValue(f, name, type_) ==
    CASE type_ = "d" -> f.yscaling
      [] type_ = "utf16" /\ name = "date" ->
            IF f.dateOK THEN "01-Jan-20, 10:00:00" ELSE "not a date"
      [] type_ = "utf16" /\ name # "date" -> "text"
      [] OTHER -> 0

\* int(parsed[0]) on ASCII decimal digits
IsDigits(b) == Len(b) > 0 /\ \A i \in 1..Len(b) : b[i] \in 48..57

RECURSIVE ParseInt(_)
ParseInt(b) ==
    IF Len(b) = 0 THEN 0
    ELSE 10 * ParseInt(SubSeq(b, 1, Len(b) - 1)) + (b[Len(b)] - 48)

\* file_.read(n) at position p
ReadA(f, p, n) ==
    IF p >= f.len THEN << >>
    ELSE [i \in 1..(Min(p + n, f.len) - p) |-> ByteA(f, p + i - 1)]

\* NPoints with a fault: the count is one short
NPointsShort(total) == (total - data_start) \div 8 - 1

\* line 181
NPoints(total) == (total - data_start) \div 8

\* Scaled with a fault: the factor is left out
Unscaled(v, factor) == v

\* line 185: one value times self.metadata['yscaling']
Scaled(v, factor) == v * factor

\* numpy.fromfile(file_, dtype='<d', count=n) at position p, for n >= 0: the
\* complete values stored from p on, at most n of them
FromFile(f, p, n) ==
    LET k == (p - DataOffset) \div SampleSize
    IN  IF p < DataOffset \/ k >= Len(f.raw) THEN << >>
        ELSE SubSeq(f.raw, k + 1, Min(k + n, Len(f.raw)))

RawValues == {-3, 4}
Trailing == {0, 3, 7}
ShortLens == {0, 3, 200, 285, 2400, 4736, 4741, 6000, 6140}
Heads == { << 3, 49, 55, 57 >>,      \* "179"
           << 3, 49, 51, 48 >>,      \* "130"
           << 2, 56, 49, 0 >>,       \* "81"
           << 3, 49, 120, 57 >>,     \* "1x9"
           << 9, 49, 55, 57 >> }     \* a length byte that runs into the header
Texts == { << 0, FALSE >>, << 19, FALSE >>, << 19, TRUE >> }

FileA(h, n, t, y, r, m) ==
    [head |-> SubSeq(h, 1, Min(n, Len(h))), len |-> n, strlen |-> t[1],
     dateOK |-> t[2], yscaling |-> y, raw |-> r, mark |-> m]

FilesA ==
    { FileA(h, DataOffset + SampleSize * Len(r) + x, t, y, r, 0) :
          h \in Heads, t \in Texts, y \in {2, 10}, x \in Trailing,
          r \in UNION { [1..n -> RawValues] : n \in 0..MaxSamples } }
    \cup { FileA(h, n, t, 2, << >>, 0) : h \in Heads, t \in Texts, n \in ShortLens }

(***************************************************************************)
(* CHFile.__init__                                                         *)
(***************************************************************************)
Put(m, k, v) == [x \in DOMAIN m \cup {k} |-> IF x = k THEN v ELSE m[x]]

RaiseA(e) ==
    /\ cpc' = "Raised"
    /\ err' = e

\* lines 84-86
OpenCH ==
    /\ cpc = "New"
    /\ file_open' = TRUE
    /\ cpos' = 0
    /\ metadata' = << >>
    /\ cpc' = "ParseVersion"
    /\ UNCHANGED << chfile, version, fieldIdx, values, err >>
    /\ UNCHANGED << varsB, varsS >>

\* _parse_header lines 94-99
ParseVersion ==
    /\ cpc = "ParseVersion"
    /\ LET lb == ReadA(chfile, 0, 1)
           length == lb[1]
           parsed == ReadA(chfile, 1, length)
       IN  IF Len(lb) < 1
           THEN /\ RaiseA("struct.error")
                /\ cpos' = 0
                /\ UNCHANGED << version, metadata >>
           ELSE IF Len(parsed) < length
           THEN /\ RaiseA("struct.error")
                /\ cpos' = 1 + Len(parsed)
                /\ UNCHANGED << version, metadata >>
           ELSE /\ cpos' = 1 + length
                /\ IF ~IsDigits(parsed)
                   THEN /\ RaiseA("invalid literal")
                        /\ UNCHANGED << version, metadata >>
                   ELSE /\ version' = ParseInt(parsed)
                        /\ IF ParseInt(parsed) \notin supported_versions
                           THEN /\ RaiseA("Unsupported file version")
                                /\ UNCHANGED metadata
                           ELSE /\ metadata' = Put(metadata, "magic_number_version",
                                                   ParseInt(parsed))
                                /\ cpc' = "ParseFields"
                                /\ UNCHANGED err
    /\ UNCHANGED << chfile, file_open, fieldIdx, values >>
    /\ UNCHANGED << varsB, varsS >>

\* _parse_header lines 102-109, one entry of fields
ParseField ==
    /\ cpc = "ParseFields"
    /\ fieldIdx < Len(fields)
    /\ LET fld == fields[fieldIdx + 1]
           name == fld[1]
           offset == fld[2]
           type_ == fld[3]
       IN  /\ fieldIdx' = fieldIdx + 1
           /\ IF FieldReadable(chfile, offset, type_)
              THEN /\ metadata' = Put(metadata, name, FieldValue(chfile, name, type_))
                   /\ cpos' = offset + FieldSize(chfile, offset, type_)
                   /\ UNCHANGED << cpc, err >>
              ELSE /\ RaiseA("struct.error")
                   /\ cpos' = IF offset < chfile.len THEN chfile.len ELSE offset
                   /\ UNCHANGED metadata
    /\ UNCHANGED << chfile, file_open, version, values >>
    /\ UNCHANGED << varsB, varsS >>

\* _parse_header line 112
ConvertDate ==
    /\ cpc = "ParseFields"
    /\ fieldIdx = Len(fields)
    /\ IF metadata["date"] = "01-Jan-20, 10:00:00"
       THEN /\ metadata' = Put(metadata, "datetime", "2020-01-01 10:00:00")
            /\ cpc' = "ParseData"
            /\ UNCHANGED err
       ELSE /\ RaiseA("strptime")
            /\ UNCHANGED metadata
    /\ UNCHANGED << chfile, file_open, cpos, version, fieldIdx, values >>
    /\ UNCHANGED << varsB, varsS >>

\* _parse_data lines 180-185 and the assignment of line 88.  A negative count
\* is handed to numpy.fromfile as it is: what comes back (an array or an
\* exception) is the library's choice and is recorded as "NegativeCount".
ParseData ==
    /\ cpc = "ParseData"
    /\ LET n_points == NPoints(chfile.len)
           read == FromFile(chfile, data_start, n_points)
       IN  IF n_points >= 0
           THEN /\ values' = [i \in 1..Len(read) |->
                                 Scaled(read[i], metadata["yscaling"])]
                /\ cpos' = data_start + SampleSize * Len(read)
                /\ cpc' = "Parsed"
           ELSE /\ cpos' = data_start
                /\ cpc' = "NegativeCount"
                /\ UNCHANGED values
    /\ UNCHANGED << chfile, file_open, version, metadata, fieldIdx, err >>
    /\ UNCHANGED << varsB, varsS >>

\* line 86: the with-block is left normally
CloseCH ==
    /\ cpc = "Parsed"
    /\ file_open' = FALSE
    /\ cpc' = "Constructed"
    /\ UNCHANGED << chfile, cpos, version, metadata, fieldIdx, values, err >>
    /\ UNCHANGED << varsB, varsS >>

\* line 86: the with-block is left by the exception
UnwindCH ==
    /\ cpc \in {"Raised", "NegativeCount"}
    /\ file_open' = FALSE
    /\ cpc' = IF cpc = "Raised" THEN "Failed" ELSE "Ended"
    /\ UNCHANGED << chfile, cpos, version, metadata, fieldIdx, values, err >>
    /\ UNCHANGED << varsB, varsS >>

InitCH ==
    /\ IdleB
    /\ IdleS
    /\ chfile \in FilesA
    /\ cpc = "New"
    /\ file_open = FALSE
    /\ cpos = 0
    /\ version = -1
    /\ metadata = << >>
    /\ fieldIdx = 0
    /\ values = << >>
    /\ err = ""

NextCH ==
    OpenCH \/ ParseVersion \/ ParseField \/ ConvertDate \/ ParseData
        \/ CloseCH \/ UnwindCH

SpecCH == InitCH /\ [][NextCH]_vars

(***************************************************************************)
(* Properties of CHFile.__init__                                           *)
(***************************************************************************)
Returned == cpc \in {"Parsed", "Constructed"}
Excess == chfile.len - DataOffset

\* C4: when the version parsed from the start of the file is not 179, the
\* call fails with the unsupported-version error, no entry of fields has been
\* sought or read and metadata holds no entry.
C4_VersionGate ==
    (version # -1 /\ version # 179) =>
        /\ cpc \in {"Raised", "Failed"}
        /\ err = "Unsupported file version"
        /\ fieldIdx = 0
        /\ cpos = 1 + chfile.head[1]
        /\ DOMAIN metadata = {}

\* a file of version 130 was refused
C4_Witness ==
    /\ cpc = "Failed"
    /\ version = 130
    /\ chfile.len > DataOffset

\* C5 (as stated): a sample array is returned only when the length of the
\* file minus 6144 is a non-negative multiple of 8; any other file fails.
C5_TruncatedDataRefused ==
    Returned => (Excess >= 0 /\ Excess % SampleSize = 0)

\* C5 (as amended): for a file of at least 6144 bytes _parse_data does not
\* fail, and it returns floor((totalLength - 6144) / 8) samples: up to seven
\* trailing bytes are ignored.
C5_CountIsFloor ==
    /\ (Returned /\ Excess >= 0) =>
          /\ Len(values) = Excess \div SampleSize
          /\ err = ""
    /\ (fieldIdx = Len(fields) /\ "datetime" \in DOMAIN metadata /\ Excess >= 0) =>
          cpc \in {"ParseData", "Parsed", "Constructed"}

\* a file with one sample and three more bytes was decoded
C5_Witness ==
    /\ cpc = "Constructed"
    /\ Excess = SampleSize + 3
    /\ Len(values) = 1

\* C6: a file of 6144 header bytes and N raw values decodes to N samples, in
\* file order, the i-th being yscaling times the i-th raw value.
C6_ScaledInOrder ==
    (Returned /\ Excess = SampleSize * Len(chfile.raw)) =>
        /\ Len(values) = Len(chfile.raw)
        /\ \A i \in 1..Len(chfile.raw) :
              values[i] = metadata["yscaling"] * chfile.raw[i]
        /\ metadata["yscaling"] = chfile.yscaling

\* two different raw values were decoded, and so was a file with none
C6_Witness ==
    /\ cpc = "Constructed"
    /\ chfile.raw = << 4, -3 >>
    /\ chfile.yscaling = 10
    /\ Excess = 2 * SampleSize
    /\ values = << 40, -30 >>

(***************************************************************************)
(* CHFile._parse_header_status                                             *)
(***************************************************************************)
\* line 120
skips == {325, 3600}

\* line 118: the offsets of the known fields
knowns == { fields[i][2] : i \in DOMAIN fields }
KnownAt(p) == fields[CHOOSE i \in DOMAIN fields : fields[i][2] = p]

\* line 159: unknown_bytes[-4:] == b'\x00\x00\x00\x00'
LastFourZero(b) ==
    Len(b) >= 4 /\ \A i \in (Len(b) - 3)..Len(b) : b[i] = 0

\* lines 116-126
OpenStatus ==
    /\ spc = "New"
    /\ sOpen' = TRUE
    /\ spos' = 4
    /\ unknown_start' = -1
    /\ unknown_bytes' = << >>
    /\ spc' = "Walking"
    /\ UNCHANGED << sfile, lastPos >>
    /\ UNCHANGED << varsB, varsA >>

\* lines 128-133: a skip byte
SkipByte ==
    /\ spc = "Walking"
    /\ spos < data_start
    /\ spos \in skips
    /\ spos' = spos + Len(ReadA(sfile, spos, 1))
    /\ lastPos' = spos
    /\ UNCHANGED << sfile, spc, sOpen, unknown_bytes, unknown_start >>
    /\ UNCHANGED << varsB, varsA >>

\* lines 128-155: a known field starts here
KnownField ==
    /\ spc = "Walking"
    /\ spos < data_start
    /\ spos \notin skips
    /\ spos \in knowns
    /\ LET type_ == KnownAt(spos)[3]
       IN  /\ unknown_bytes' = << >>
           /\ unknown_start' = IF unknown_bytes # << >> THEN -1 ELSE unknown_start
           /\ IF FieldReadable(sfile, spos, type_)
              THEN /\ spos' = spos + FieldSize(sfile, spos, type_)
                   /\ UNCHANGED spc
              ELSE /\ spos' = IF spos < sfile.len THEN sfile.len ELSE spos
                   /\ spc' = "Raised"
    /\ lastPos' = spos
    /\ UNCHANGED << sfile, sOpen >>
    /\ UNCHANGED << varsB, varsA >>

\* lines 128-129 and 156-173: a byte no field covers
UnknownByte ==
    /\ spc = "Walking"
    /\ spos < data_start
    /\ spos \notin skips
    /\ spos \notin knowns
    /\ LET kept == IF LastFourZero(unknown_bytes) THEN << >> ELSE unknown_bytes
           start == IF LastFourZero(unknown_bytes) THEN -1 ELSE unknown_start
           one_byte == ReadA(sfile, spos, 1)
       IN  /\ spos' = spos + Len(one_byte)
           /\ IF kept = << >>
              THEN IF one_byte # << 0 >>
                   THEN /\ unknown_bytes' = one_byte
                        /\ unknown_start' = spos + Len(one_byte) - 1
                   ELSE /\ unknown_bytes' = kept
                        /\ unknown_start' = start
              ELSE /\ unknown_bytes' = kept \o one_byte
                   /\ unknown_start' = start
    /\ lastPos' = spos
    /\ UNCHANGED << sfile, spc, sOpen >>
    /\ UNCHANGED << varsB, varsA >>

\* lines 128 and 175: the data is reached
CloseStatus ==
    /\ spc = "Walking"
    /\ spos >= data_start
    /\ sOpen' = FALSE
    /\ spc' = "Returned"
    /\ UNCHANGED << sfile, spos, unknown_bytes, unknown_start, lastPos >>
    /\ UNCHANGED << varsB, varsA >>

StatusLens == {0, 3, 200, 284, 325, 2392, 6140, 6144, 6150}
Marks == {0, 3, 9}

FilesS ==
    { FileA(<< 3, 49, 55, 57 >>, n, t, 2, << >>, m) :
          n \in StatusLens, t \in { << 0, FALSE >>, << 19, TRUE >> }, m \in Marks }

InitStatus ==
    /\ IdleB
    /\ IdleA
    /\ sfile \in FilesS
    /\ spc = "New"
    /\ sOpen = FALSE
    /\ spos = 0
    /\ unknown_bytes = << >>
    /\ unknown_start = -1
    /\ lastPos = -1

NextStatus == OpenStatus \/ SkipByte \/ KnownField \/ UnknownByte \/ CloseStatus

SpecStatus == InitStatus /\ [][NextStatus]_vars

(***************************************************************************)
(* Properties of the byte sources and of the header walk                   *)
(***************************************************************************)
\* C7: when a decode call has ended, by return or by an exception, the file
\* it opened is closed.
C7_ReleasedOnEveryExit ==
    /\ pc \in {"Idle", "Finished", "Aborted"} => ~ifileOpen
    /\ cpc \in {"Constructed", "Failed", "Ended"} => ~file_open
    /\ spc \in {"Returned", "Raised"} => ~sOpen

\* C10: every iteration of the walk leaves the file position beyond the
\* position it began at.
C10_EveryIterationAdvances ==
    (spc = "Walking" /\ lastPos # -1) => spos > lastPos

=============================================================================
